---- MODULE Spec2Model ----
(***************************************************************************)
(* Wanted-persons backend: record normalisation, key-based deduplication   *)
(* and the JSON snapshot store.                                            *)
(*                                                                         *)
(* Text is a sequence of one-character strings, so that strip(), lower(),  *)
(* replace() and split() are computed character by character.  A raw JSON  *)
(* value is a tagged record (Null, S(text), I(n), L(list)); a raw mapping  *)
(* is a function from its keys to such values (a missing key is a key      *)
(* outside its DOMAIN).                                                    *)
(***************************************************************************)
EXTENDS Integers, Sequences, FiniteSets, TLC

VARIABLES
    settings,   \* the cached Settings object (core/settings.py)
    file,       \* the JSON document at settings.wanted_persons_data_path, or NoFile
    lastWrite,  \* history: the last save_wanted_persons call, [by, payload, at]
    op,         \* the operation that ran last ("input" before any ran)
    arg,        \* its argument
    ret,        \* its outcome: Return(value) or Raise(exception)
    calls,      \* the calls it made to external services, in order
    environ,    \* os.environ: the names of the variables the environment sets
    threads     \* the position of each thread inside a storage call (<<>>: none runs)

vars == <<settings, file, lastWrite, op, arg, ret, calls, environ, threads>>

----------------------------------------------------------------------------
(* Bounds of the model                                                     *)

MaxItems == 2       \* longest item list handed to upsert / save
MaxEntries == 2     \* longest entry list of an extraction response

----------------------------------------------------------------------------
(* Python values                                                           *)

Null == [t |-> "null"]
S(s) == [t |-> "str", s |-> s]
I(n) == [t |-> "int", n |-> n]
L(l) == [t |-> "list", l |-> l]
D(d) == [t |-> "dict", d |-> d]

NoFile == [t |-> "nofile"]
NoWrite == [by |-> "none"]

Return(v) == [kind |-> "return", val |-> v]
Raise(e) == [kind |-> "raise", exc |-> e]

\* bool(v): None, "", 0 and [] are falsy
Truthy(v) ==
    CASE v.t = "null" -> FALSE
      [] v.t = "str" -> v.s # <<>>
      [] v.t = "int" -> v.n # 0
      [] v.t = "list" -> v.l # <<>>
      [] v.t = "dict" -> DOMAIN v.d # {}
      [] OTHER -> TRUE

\* the fallback wins over the primary value
OrFallbackFirst(a, b) == IF Truthy(b) THEN b ELSE a

\* a or b
Or(a, b) == IF Truthy(a) THEN a ELSE b

\* dict.get(key): None when the key is missing
Get(d, k) == IF k \in DOMAIN d THEN d[k] ELSE Null

----------------------------------------------------------------------------
(* str methods                                                             *)

IsSpace(c) == c \in {" "}

RECURSIVE LStrip(_)
LStrip(s) == IF s # <<>> /\ IsSpace(Head(s)) THEN LStrip(Tail(s)) ELSE s

RECURSIVE RStrip(_)
RStrip(s) ==
    IF s # <<>> /\ IsSpace(s[Len(s)]) THEN RStrip(SubSeq(s, 1, Len(s) - 1)) ELSE s

\* str.strip(), and pydantic's str_strip_whitespace
Strip(s) == RStrip(LStrip(s))

ToLower ==
    ("A" :> "a") @@ ("B" :> "b") @@ ("C" :> "c") @@ ("D" :> "d") @@
    ("E" :> "e") @@ ("F" :> "f") @@ ("G" :> "g") @@ ("H" :> "h") @@
    ("I" :> "i") @@ ("J" :> "j") @@ ("K" :> "k") @@ ("L" :> "l") @@
    ("M" :> "m") @@ ("N" :> "n") @@ ("O" :> "o") @@ ("P" :> "p") @@
    ("Q" :> "q") @@ ("R" :> "r") @@ ("S" :> "s") @@ ("T" :> "t") @@
    ("U" :> "u") @@ ("V" :> "v") @@ ("W" :> "w") @@ ("X" :> "x") @@
    ("Y" :> "y") @@ ("Z" :> "z")

LowerChar(c) == IF c \in DOMAIN ToLower THEN ToLower[c] ELSE c

\* str.lower()
Lower(s) == [i \in 1..Len(s) |-> LowerChar(s[i])]

Digits == <<"0", "1", "2", "3", "4", "5", "6", "7", "8", "9">>

\* str(value) of a text, a one-digit integer or None
PyStr(v) ==
    CASE v.t = "str" -> v.s
      [] v.t = "int" -> <<Digits[v.n + 1]>>
      [] v.t = "null" -> <<"N", "o", "n", "e">>

\* str.replace(old, new): non-overlapping occurrences, left to right
RECURSIVE Replace(_, _, _)
Replace(s, old, new) ==
    IF Len(s) < Len(old) THEN s
    ELSE IF SubSeq(s, 1, Len(old)) = old
         THEN new \o Replace(SubSeq(s, Len(old) + 1, Len(s)), old, new)
         ELSE <<Head(s)>> \o Replace(Tail(s), old, new)

RECURSIVE SplitFrom(_, _, _)
SplitFrom(s, sep, cur) ==
    IF s = <<>> THEN <<cur>>
    ELSE IF Head(s) = sep THEN <<cur>> \o SplitFrom(Tail(s), sep, <<>>)
         ELSE SplitFrom(Tail(s), sep, Append(cur, Head(s)))

\* str.split(sep) for a one-character separator
Split(s, sep) == SplitFrom(s, sep, <<>>)

NonEmptyText(s) == s # <<>>

\* a list of texts as a list of str values
AsStrList(texts) == [i \in 1..Len(texts) |-> S(texts[i])]

----------------------------------------------------------------------------
(* pydantic field types of models/wanted_person.py                         *)

Invalid == [t |-> "invalid"]

\* index of the first occurrence of pat in s, 0 when there is none
RECURSIVE FindFrom(_, _, _)
FindFrom(s, pat, i) ==
    IF i + Len(pat) - 1 > Len(s) THEN 0
    ELSE IF SubSeq(s, i, i + Len(pat) - 1) = pat THEN i
         ELSE FindFrom(s, pat, i + 1)

Find(s, pat) == FindFrom(s, pat, 1)

HttpSchemes == {<<"h", "t", "t", "p">>, <<"h", "t", "t", "p", "s">>}

\* HttpUrl: an absolute http(s) URL with a host; scheme and host are
\* lower-cased and an empty path becomes "/"
ParseHttpUrl(text) ==
    LET t == Strip(text)
        i == Find(t, <<":", "/", "/">>)
        scheme == Lower(SubSeq(t, 1, i - 1))
        rest == SubSeq(t, i + 3, Len(t))
        j == Find(rest, <<"/">>)
        host == Lower(IF j = 0 THEN rest ELSE SubSeq(rest, 1, j - 1))
        path == IF j = 0 THEN <<"/">> ELSE SubSeq(rest, j, Len(rest))
    IN  IF i = 0 THEN Invalid
        ELSE IF scheme \notin HttpSchemes \/ host = <<>> THEN Invalid
        ELSE [t |-> "url", scheme |-> scheme, host |-> host, path |-> path]

\* str(url)
UrlStr(u) == u.scheme \o <<":", "/", "/">> \o u.host \o u.path

\* a `str` field under str_strip_whitespace=True: only text is accepted
StrField(v) == IF v.t = "str" THEN S(Strip(v.s)) ELSE Invalid

\* Optional[str]
OptStrField(v) == IF v.t = "null" THEN Null ELSE StrField(v)

\* Optional[HttpUrl]
OptUrlField(v) ==
    IF v.t = "null" THEN Null
    ELSE IF v.t = "url" THEN v
    ELSE IF v.t = "str" THEN ParseHttpUrl(v.s)
    ELSE Invalid

\* list[str]
StrListField(v) ==
    IF v.t = "list" /\ \A i \in 1..Len(v.l) : v.l[i].t = "str"
    THEN L([i \in 1..Len(v.l) |-> Strip(v.l[i].s)])
    ELSE Invalid

\* WantedPerson(**fields): the validated model, or pydantic's ValidationError
WantedPerson(full_name, alias, crimes, image_url, police_station, source_url) ==
    LET p == [full_name |-> StrField(full_name),
              alias |-> OptStrField(alias),
              crimes |-> StrListField(crimes),
              image_url |-> OptUrlField(image_url),
              police_station |-> OptStrField(police_station),
              source_url |-> OptUrlField(source_url)]
    IN  IF \E f \in DOMAIN p : p[f] = Invalid
        THEN Raise("ValidationError")
        ELSE Return([p EXCEPT !.full_name = p.full_name.s, !.crimes = p.crimes.l])


Digit(c) == CHOOSE n \in 0..9 : Digits[n + 1] = c

IsDigit(c) == \E n \in 0..9 : Digits[n + 1] = c

\* the timezone is left out of the text
IsoFormatNaive(dt) == <<Digits[dt.n + 1]>>

\* datetime.isoformat() / pydantic's JSON form: the instant, and "Z" when the
\* datetime is timezone-aware (UTC)
IsoFormat(dt) == <<Digits[dt.n + 1]>> \o (IF dt.tz = "utc" THEN <<"Z">> ELSE <<>>)

\* datetime.fromisoformat(text) / pydantic's datetime parser
FromIsoFormat(text) ==
    IF Len(text) = 1 /\ IsDigit(text[1])
    THEN [t |-> "datetime", n |-> Digit(text[1]), tz |-> "naive"]
    ELSE IF Len(text) = 2 /\ IsDigit(text[1]) /\ text[2] = "Z"
    THEN [t |-> "datetime", n |-> Digit(text[1]), tz |-> "utc"]
    ELSE Invalid

\* a `datetime` field
DatetimeField(v) ==
    IF v.t = "datetime" THEN v
    ELSE IF v.t = "str" THEN FromIsoFormat(v.s)
    ELSE Invalid

\* a required HttpUrl field
UrlField(v) == IF v.t = "null" THEN Invalid ELSE OptUrlField(v)

\* WantedPerson.model_validate(item) of one stored item
ValidateItem(item) ==
    IF item.t # "dict" THEN Raise("ValidationError")
    ELSE WantedPerson(Get(item.d, "full_name"), Get(item.d, "alias"),
                      IF "crimes" \in DOMAIN item.d THEN item.d["crimes"] ELSE L(<<>>),
                      Get(item.d, "image_url"), Get(item.d, "police_station"),
                      Get(item.d, "source_url"))

\* WantedPersonsPayload(scraped_at=..., source_url=..., items=[WantedPerson, ...])
WantedPersonsPayload(scraped_at, source_url, items) ==
    LET at == DatetimeField(scraped_at)
        url == UrlField(source_url)
    IN  IF at = Invalid \/ url = Invalid THEN Raise("ValidationError")
        ELSE Return([scraped_at |-> at, source_url |-> url, items |-> items])

OptText(v) == IF v.t = "null" THEN Null ELSE S(v.s)

OptUrlText(v) == IF v.t = "null" THEN Null ELSE S(UrlStr(v))

\* WantedPerson.model_dump(mode="json")
DumpItem(p) ==
    D([full_name |-> S(p.full_name),
       alias |-> OptText(p.alias),
       crimes |-> L(AsStrList(p.crimes)),
       image_url |-> OptUrlText(p.image_url),
       police_station |-> OptText(p.police_station),
       source_url |-> OptUrlText(p.source_url)])

\* payload.model_dump(mode="json"): the document json.dump writes
model_dump(payload) ==
    D([scraped_at |-> S(IsoFormat(payload.scraped_at)),
       source_url |-> S(UrlStr(payload.source_url)),
       items |-> L([i \in 1..Len(payload.items) |-> DumpItem(payload.items[i])])])

\* WantedPersonsPayload.model_validate(raw) of the document json.load reads
model_validate(raw) ==
    IF raw.t # "dict" THEN Raise("ValidationError")
    ELSE LET items == IF "items" \in DOMAIN raw.d THEN raw.d["items"] ELSE L(<<>>)
             persons == IF items.t = "list"
                        THEN [i \in 1..Len(items.l) |-> ValidateItem(items.l[i])]
                        ELSE <<>>
         IN  IF items.t # "list" \/ \E i \in 1..Len(persons) : persons[i].kind = "raise"
             THEN Raise("ValidationError")
             ELSE WantedPersonsPayload(Get(raw.d, "scraped_at"), Get(raw.d, "source_url"),
                                       [i \in 1..Len(persons) |-> persons[i].val])

----------------------------------------------------------------------------
(* services/wanted_persons_scraper.py                                      *)

AndWord == <<" ", "a", "n", "d", " ">>

KeepNonEmpty(parts) == SelectSeq(parts, NonEmptyText)

\* splits on commas only
_normalize_crimes_commas_only(value) ==
    CASE value.t = "null" -> <<>>
      [] value.t = "list" ->
            KeepNonEmpty([i \in 1..Len(value.l) |-> Strip(PyStr(value.l[i]))])
      [] value.t = "str" ->
            LET parts == Split(value.s, ",")
            IN  KeepNonEmpty([i \in 1..Len(parts) |-> Strip(parts[i])])
      [] OTHER -> <<PyStr(value)>>

\* _normalize_crimes(value): a list of str
_normalize_crimes(value) ==
    CASE value.t = "null" -> <<>>
      [] value.t = "list" ->
            KeepNonEmpty([i \in 1..Len(value.l) |-> Strip(PyStr(value.l[i]))])
      [] value.t = "str" ->
            LET parts == Split(Replace(value.s, AndWord, <<",">>), ",")
            IN  KeepNonEmpty([i \in 1..Len(parts) |-> Strip(parts[i])])
      [] OTHER -> <<PyStr(value)>>

\* the name guard only tests for None
_normalize_record_none_guard(data) ==
    LET full_name == Or(Get(data, "full_name"), Get(data, "name"))
        alias == Get(data, "alias")
    IN  IF full_name = Null THEN Return(Null)
        ELSE WantedPerson(full_name,
                          IF Truthy(alias) THEN alias ELSE Null,
                          L(AsStrList(_normalize_crimes(Get(data, "crimes")))),
                          Or(Get(data, "image_url"), Get(data, "imageurl")),
                          Or(Get(data, "police_station"), Get(data, "location")),
                          Get(data, "source_url"))

\* _normalize_record(data): Return(WantedPerson), Return(Null) or a raise
_normalize_record(data) ==
    LET full_name == Or(Get(data, "full_name"), Get(data, "name"))
        alias == Get(data, "alias")
        crimes == _normalize_crimes(Get(data, "crimes"))
        image_url == Or(Get(data, "image_url"), Get(data, "imageurl"))
        police_station == Or(Get(data, "police_station"), Get(data, "location"))
        source_url == Get(data, "source_url")
    IN  IF ~Truthy(full_name) THEN Return(Null)
        ELSE WantedPerson(full_name,
                          IF Truthy(alias) THEN alias ELSE Null,
                          L(AsStrList(crimes)),
                          image_url, police_station, source_url)


\* the keys of a mapping, in some order, as str values
RECURSIVE KeysOf(_)
KeysOf(keys) ==
    IF keys = {} THEN <<>>
    ELSE LET k == CHOOSE x \in keys : TRUE IN <<S(<<k>>)>> \o KeysOf(keys \ {k})

\* `key in container` for a key name: membership for a mapping, TypeError for
\* None and numbers; the lists and texts of the inputs never hold a key name
In(key, v) ==
    CASE v.t = "dict" -> Return(key \in DOMAIN v.d)
      [] v.t = "list" -> Return(FALSE)
      [] v.t = "str" -> Return(FALSE)
      [] OTHER -> Raise("TypeError")

\* the entries a `for` loop draws from `source or []`: a list's elements, the
\* characters of a str, the keys of a mapping; TypeError for a number
Iterate(source) ==
    CASE ~Truthy(source) -> Return(<<>>)
      [] source.t = "list" -> Return(source.l)
      [] source.t = "str" -> Return([i \in 1..Len(source.s) |-> S(<<source.s[i]>>)])
      [] source.t = "dict" -> Return(KeysOf(DOMAIN source.d))
      [] OTHER -> Raise("TypeError")

\* lines 77-84 of _extract_records: the list the records are read from
SelectSource(raw) ==
    IF "wanted_persons" \in DOMAIN raw THEN Return(raw["wanted_persons"])
    ELSE IF "data" \notin DOMAIN raw
    THEN Return(Or(Or(Get(raw, "criminals"), Get(raw, "items")), L(<<>>)))
    ELSE LET inWanted == In("wanted_persons", raw["data"])
             inCriminals == In("criminals", raw["data"])
         IN  IF inWanted.kind = "raise" THEN inWanted
             ELSE IF inWanted.val THEN Return(raw["data"].d["wanted_persons"])
             ELSE IF inCriminals.val THEN Return(raw["data"].d["criminals"])
             ELSE Return(Or(Or(Get(raw, "criminals"), Get(raw, "items")), L(<<>>)))

\* lines 86-89: the loop over the entries; a raise ends the generator
RECURSIVE ExtractLoop(_, _)
ExtractLoop(entries, yielded) ==
    IF entries = <<>> THEN Return(yielded)
    ELSE LET entry == Head(entries)
             normalized == IF entry.t = "dict" THEN _normalize_record(entry.d)
                           ELSE Raise("AttributeError")
         IN  IF normalized.kind = "raise" THEN normalized
             ELSE IF normalized.val = Null THEN ExtractLoop(Tail(entries), yielded)
             ELSE ExtractLoop(Tail(entries), Append(yielded, normalized.val))

\* list(_extract_records(raw)): the records yielded, or the exception raised
_extract_records(raw) ==
    LET source == SelectSource(raw)
        entries == IF source.kind = "raise" THEN source ELSE Iterate(source.val)
    IN  IF entries.kind = "raise" THEN entries ELSE ExtractLoop(entries.val, <<>>)

----------------------------------------------------------------------------
(* services/wanted_persons_storage.py                                      *)

\* the key without lower-casing
DedupKeyCaseSensitive(person) ==
    <<person.full_name, IF Truthy(person.alias) THEN S(person.alias.s) ELSE Null>>

\* line 63: key = (person.full_name.lower(), person.alias.lower() if person.alias else None)
DedupKey(person) ==
    <<Lower(person.full_name),
      IF Truthy(person.alias) THEN S(Lower(person.alias.s)) ELSE Null>>

\* a dict as the sequence of its (key, value) entries in insertion order
DictHas(d, key) == \E i \in 1..Len(d) : d[i].key = key

\* the first value of a key is kept
DictSetKeepFirst(d, key, value) ==
    IF DictHas(d, key) THEN d ELSE Append(d, [key |-> key, value |-> value])

\* d[key] = value: a known key keeps its position, a new key goes last
DictSet(d, key, value) ==
    IF DictHas(d, key)
    THEN [i \in 1..Len(d) |-> IF d[i].key = key THEN [d[i] EXCEPT !.value = value] ELSE d[i]]
    ELSE Append(d, [key |-> key, value |-> value])

\* the values listed from the newest key to the oldest
DictValuesReversed(d) == [i \in 1..Len(d) |-> d[Len(d) + 1 - i].value]

\* list(d.values())
DictValues(d) == [i \in 1..Len(d) |-> d[i].value]

\* lines 61-64: the loop filling `deduped`
RECURSIVE Dedupe(_, _)
Dedupe(items, deduped) ==
    IF items = <<>> THEN deduped
    ELSE Dedupe(Tail(items), DictSet(deduped, DedupKey(Head(items)), Head(items)))

\* the empty payload is stamped with another time than the configured one
EmptyPayloadOtherTime(s) ==
    WantedPersonsPayload([t |-> "datetime", n |-> 9, tz |-> "utc"],
                         S(s.wanted_persons_source_url), <<>>)

\* the payload load_wanted_persons returns when the file is missing
EmptyPayload(s) ==
    LET at == FromIsoFormat(s.default_scrape_timestamp)
    IN  IF at = Invalid THEN Raise("ValueError")
        ELSE WantedPersonsPayload(at, S(s.wanted_persons_source_url), <<>>)

\* load_wanted_persons(): the outcome for the file as it is
load_wanted_persons(s, f) ==
    IF f = NoFile THEN EmptyPayload(s) ELSE model_validate(f)

\* lines 66-70 of upsert_wanted_persons: the payload built from the items
UpsertPayload(s, items, scraped_at) ==
    WantedPersonsPayload(scraped_at, S(s.wanted_persons_source_url),
                         DictValues(Dedupe(items, <<>>)))

----------------------------------------------------------------------------
(* Inputs: raw records as the extraction service may return them           *)

Absent == [t |-> "absent"]

UrlX == <<"h", "t", "t", "p", ":", "/", "/", "x">>
UrlImg == <<"H", "T", "T", "P", "S", ":", "/", "/", "X", "/", "a">>
NotAUrl == <<"x", "/", "a">>

\* the values tried for each key of a raw record (Absent: the key is missing)
RawChoices ==
    [full_name |-> {Absent, Null, S(<<>>), S(<<" ">>), S(<<"A", " ", "b">>),
                    S(<<" ", "a">>), I(0), I(7)},
     name |-> {Absent, S(<<>>), S(<<" ">>), S(<<"b">>)},
     alias |-> {Absent, Null, S(<<>>), S(<<" ">>), S(<<"J", " ">>)},
     crimes |-> {Absent, S(<<"a", " ", "a", "n", "d", " ", "b", ",", " ">>),
                 L(<<S(<<" ", "a">>), I(1), S(<<>>)>>)},
     image_url |-> {Absent, S(<<>>), S(UrlImg), S(NotAUrl)},
     imageurl |-> {Absent, S(UrlX)},
     police_station |-> {Absent, S(<<>>), S(<<" ">>), S(<<"C">>)},
     location |-> {Absent, S(<<"c", " ">>)},
     source_url |-> {Absent, S(UrlX)}]

\* the mapping that holds the keys chosen present
MkDict(c) == [k \in {x \in DOMAIN c : c[x] # Absent} |-> c[k]]

\* one choice per key
RawChoiceSet ==
    [full_name : RawChoices.full_name, name : RawChoices.name,
     alias : RawChoices.alias, crimes : RawChoices.crimes,
     image_url : RawChoices.image_url, imageurl : RawChoices.imageurl,
     police_station : RawChoices.police_station, location : RawChoices.location,
     source_url : RawChoices.source_url]

----------------------------------------------------------------------------
(* Specification of _normalize_record over every raw record                *)

DefaultSettings ==
    [wanted_persons_source_url |-> UrlX,
     default_scrape_timestamp |-> <<"0", "Z">>]

InitNormalize ==
    /\ settings = DefaultSettings
    /\ file = NoFile
    /\ lastWrite = NoWrite
    /\ op = "input"
    /\ \E c \in RawChoiceSet : arg = MkDict(c)
    /\ ret = Return(Null)
    /\ calls = <<>>
    /\ environ = {}
    /\ threads = <<>>

NormalizeRecord ==
    /\ op = "input"
    /\ op' = "_normalize_record"
    /\ ret' = _normalize_record(arg)
    /\ UNCHANGED <<environ, threads, settings, file, lastWrite, arg, calls>>

NextNormalize == NormalizeRecord

SpecNormalize == InitNormalize /\ [][NextNormalize]_vars

----------------------------------------------------------------------------
(* Specification of _extract_records over extraction responses              *)

\* the entries tried in the lists of a response
RawEntries ==
    {D([full_name |-> S(<<"a">>), crimes |-> S(<<"x">>)]),
     D([name |-> S(<<"B", " ">>), alias |-> S(<<"J">>), imageurl |-> S(UrlX)]),
     D([alias |-> S(<<"J">>), crimes |-> S(<<"x">>)]),
     D([full_name |-> S(<<>>), image_url |-> S(NotAUrl)]),
     D([full_name |-> S(<<"a">>), image_url |-> S(NotAUrl)]),
     D([full_name |-> S(<<" ">>), alias |-> S(<<" ">>)])}

SeqsUpTo(set, n) == UNION {[1..k -> set] : k \in 0..n}

EntryLists == SeqsUpTo(RawEntries, MaxEntries)

\* where a response may hold its list
Slots == {"wanted_persons", "data.wanted_persons", "data.criminals", "criminals", "items"}

\* the response holding list l in slot a and, when b is another slot, the
\* list decoy in slot b
MkResponse(a, l, b, decoy) ==
    LET at(k) == IF a = k THEN L(l) ELSE IF b = k THEN L(decoy) ELSE Absent
        data == MkDict([wanted_persons |-> at("data.wanted_persons"),
                        criminals |-> at("data.criminals")])
    IN  MkDict([wanted_persons |-> at("wanted_persons"),
                data |-> IF DOMAIN data = {} THEN Absent ELSE D(data),
                criminals |-> at("criminals"),
                items |-> at("items")])

Decoy == <<D([full_name |-> S(<<"d">>)])>>

InitExtract ==
    /\ settings = DefaultSettings
    /\ file = NoFile
    /\ lastWrite = NoWrite
    /\ op = "input"
    /\ \E a \in Slots, l \in EntryLists, b \in Slots \cup {"none"} :
          arg = MkResponse(a, l, b, Decoy)
    /\ ret = Return(Null)
    /\ calls = <<>>
    /\ environ = {}
    /\ threads = <<>>

ExtractRecords ==
    /\ op = "input"
    /\ op' = "_extract_records"
    /\ ret' = _extract_records(arg)
    /\ UNCHANGED <<environ, threads, settings, file, lastWrite, arg, calls>>

NextExtract == ExtractRecords

SpecExtract == InitExtract /\ [][NextExtract]_vars

----------------------------------------------------------------------------
(* Specification of the snapshot store: upsert, save and load              *)

\* WantedPerson objects as pydantic builds them: several share an identity
\* key and differ in letter case, alias or crimes
Persons ==
    {WantedPerson(S(c.full_name), c.alias, L(AsStrList(c.crimes)), c.image_url,
                  c.police_station, Null).val :
        c \in {[full_name |-> <<"a">>, alias |-> Null, crimes |-> <<<<"x">>>>,
                image_url |-> Null, police_station |-> Null],
               [full_name |-> <<"A">>, alias |-> S(<<>>), crimes |-> <<<<"y">>>>,
                image_url |-> Null, police_station |-> Null],
               [full_name |-> <<"a">>, alias |-> S(<<"J">>), crimes |-> <<>>,
                image_url |-> S(UrlImg), police_station |-> Null],
               [full_name |-> <<"A">>, alias |-> S(<<"j">>), crimes |-> <<>>,
                image_url |-> Null, police_station |-> S(<<"C">>)]}}

ItemLists == SeqsUpTo(Persons, MaxItems)

Datetimes == {[t |-> "datetime", n |-> 1, tz |-> "utc"],
              [t |-> "datetime", n |-> 2, tz |-> "naive"]}

\* the settings a process may run with
SettingsChoices ==
    {DefaultSettings,
     [wanted_persons_source_url |-> UrlImg, default_scrape_timestamp |-> <<"3">>]}

\* payloads a caller may hand to save_wanted_persons
Payloads ==
    {WantedPersonsPayload(at, S(UrlX), items).val : at \in Datetimes, items \in ItemLists}

Init ==
    /\ settings \in SettingsChoices
    /\ file = NoFile
    /\ lastWrite = NoWrite
    /\ op = "input"
    /\ arg = <<>>
    /\ ret = Return(Null)
    /\ calls = <<>>
    /\ environ = {}
    /\ threads = <<>>

\* the new items are added to the items the file holds
save_wanted_persons_merging(payload) ==
    LET new == model_dump(payload)
    IN  file' = IF file = NoFile THEN new
                ELSE D([new.d EXCEPT !.items = L(file.d.items.l \o new.d.items.l)])

\* save_wanted_persons(payload): the file is opened for writing and the
\* dumped document replaces what it held
save_wanted_persons(payload) == file' = model_dump(payload)

\* history: whether the write drops an item the file held before it
Drops(old, payload) ==
    /\ old # NoFile
    /\ \E i \in 1..Len(old.d.items.l) :
          \A j \in 1..Len(payload.items) : old.d.items.l[i] # DumpItem(payload.items[j])

Save ==
    \E payload \in Payloads :
        /\ save_wanted_persons(payload)
        /\ lastWrite' = [by |-> "save_wanted_persons", args |-> <<payload>>,
                         payload |-> payload, drops |-> Drops(file, payload)]
        /\ op' = "save_wanted_persons"
        /\ arg' = <<payload>>
        /\ ret' = Return(Null)
        /\ UNCHANGED <<environ, threads, settings, calls>>

Upsert ==
    \E items \in ItemLists, scraped_at \in Datetimes :
        LET payload == UpsertPayload(settings, items, scraped_at)
        IN  /\ op' = "upsert_wanted_persons"
            /\ arg' = <<items, scraped_at>>
            /\ ret' = payload
            /\ IF payload.kind = "raise"
               THEN UNCHANGED <<file, lastWrite>>
               ELSE /\ save_wanted_persons(payload.val)
                    /\ lastWrite' = [by |-> "upsert_wanted_persons",
                                     args |-> <<items, scraped_at>>,
                                     payload |-> payload.val,
                                     drops |-> Drops(file, payload.val)]
            /\ UNCHANGED <<environ, threads, settings, calls>>

Load ==
    /\ op' = "load_wanted_persons"
    /\ arg' = <<>>
    /\ ret' = load_wanted_persons(settings, file)
    /\ UNCHANGED <<environ, threads, settings, file, lastWrite, calls>>

Next == Save \/ Upsert \/ Load

Spec == Init /\ [][Next]_vars

----------------------------------------------------------------------------
(* Claims about the snapshot store (checked under Spec)                    *)

\* the identity key of a record: (lowercase(full_name), lowercase(alias) or absent)
IdentityKey(p) ==
    <<Lower(p.full_name),
      IF p.alias = Null \/ p.alias.s = <<>> THEN Null ELSE S(Lower(p.alias.s))>>

KeysOfItems(items) == {IdentityKey(items[i]) : i \in 1..Len(items)}

\* the highest position of the key in the list
LastPosition(items, key) ==
    CHOOSE i \in 1..Len(items) :
        /\ IdentityKey(items[i]) = key
        /\ \A j \in (i + 1)..Len(items) : IdentityKey(items[j]) # key

UpsertReturned == op = "upsert_wanted_persons" /\ ret.kind = "return"

\* C1: the payload upsert_wanted_persons returns holds no two items with the
\* same identity key, and its items carry exactly the identity keys of the input.
C1_UniqueKeys ==
    UpsertReturned =>
        LET out == ret.val.items
        IN  /\ \A i, j \in 1..Len(out) :
                  i # j => IdentityKey(out[i]) # IdentityKey(out[j])
            /\ KeysOfItems(out) = KeysOfItems(arg[1])

C1_Witness ==
    /\ UpsertReturned
    /\ Len(arg[1]) = 2
    /\ arg[1][1] # arg[1][2]
    /\ IdentityKey(arg[1][1]) = IdentityKey(arg[1][2])
    /\ Len(ret.val.items) = 1

\* C2: deduplication is last-write-wins: for every identity key of the input,
\* the one item kept for it is the record at the highest input position with
\* that key.
C2_LastWriteWins ==
    UpsertReturned =>
        LET out == ret.val.items
            in == arg[1]
        IN  /\ \A k \in 1..Len(out) :
                  out[k] = in[LastPosition(in, IdentityKey(out[k]))]
            /\ \A i \in 1..Len(in) :
                  \E k \in 1..Len(out) :
                      out[k] = in[LastPosition(in, IdentityKey(in[i]))]

C2_Witness ==
    /\ UpsertReturned
    /\ Len(arg[1]) = 2
    /\ arg[1][1].crimes # arg[1][2].crimes
    /\ arg[1][1].full_name = <<"a">> /\ arg[1][1].alias = Null
    /\ IdentityKey(arg[1][1]) = IdentityKey(arg[1][2])
    /\ ret.val.items = <<arg[1][2]>>

LoadedAfter(by) == op = "load_wanted_persons" /\ lastWrite.by = by

\* C3: round trip: load_wanted_persons after upsert_wanted_persons(items, t),
\* with no other write in between, returns a payload whose items are the
\* deduplicated items the upsert returned and whose scraped_at is t.
C3_RoundTrip ==
    LoadedAfter("upsert_wanted_persons") =>
        /\ ret.kind = "return"
        /\ ret.val.items = lastWrite.payload.items
        /\ ret.val.scraped_at = lastWrite.args[2]

C3_Witness ==
    /\ LoadedAfter("upsert_wanted_persons")
    /\ ret.kind = "return"
    /\ Len(lastWrite.args[1]) = 2
    /\ Len(ret.val.items) = 1
    /\ ret.val.items[1].image_url # Null
    /\ ret.val.scraped_at.tz = "utc"

\* C4: the snapshot is replaced wholesale: after any sequence of upsert and
\* save calls, load_wanted_persons returns exactly the payload of the most
\* recent write, and every record it returns is a record of that write.
C4_ReplacedWholesale ==
    (op = "load_wanted_persons" /\ lastWrite # NoWrite) =>
        /\ ret = Return(lastWrite.payload)
        /\ \A i \in 1..Len(ret.val.items) :
              \E j \in 1..Len(lastWrite.payload.items) :
                  ret.val.items[i] = lastWrite.payload.items[j]

C4_Witness ==
    /\ op = "load_wanted_persons"
    /\ lastWrite # NoWrite
    /\ lastWrite.drops
    /\ Len(ret.val.items) = 1

ConfiguredDefault ==
    [scraped_at |-> FromIsoFormat(settings.default_scrape_timestamp),
     source_url |-> ParseHttpUrl(settings.wanted_persons_source_url),
     items |-> <<>>]

\* C5: with no snapshot persisted, load_wanted_persons returns, without an
\* error, the payload with no items, the configured default scrape timestamp
\* and the configured source URL, and it leaves the snapshot absent.
C5_AbsentSnapshot ==
    [][(op' = "load_wanted_persons" /\ file = NoFile) =>
          /\ ret' = Return(ConfiguredDefault)
          /\ IsoFormat(ret'.val.scraped_at) = settings.default_scrape_timestamp
          /\ file' = NoFile]_vars

C5_Witness ==
    /\ op = "load_wanted_persons"
    /\ file = NoFile
    /\ ret.kind = "return"
    /\ ret.val.items = <<>>
    /\ settings.wanted_persons_source_url = UrlImg

----------------------------------------------------------------------------
(* Claims about _normalize_record (checked under SpecNormalize)            *)

\* a value that is missing, null or empty (Python's falsy values)
IsEmptyValue(v) == v \in {Null, S(<<>>), I(0), L(<<>>)}

HoldsValue(d, k) == k \in DOMAIN d /\ ~IsEmptyValue(d[k])

\* the value of the primary key when it is present and non-empty, else the
\* value of the fallback key (null when that is missing)
Pick(d, primary, fallback) ==
    IF HoldsValue(d, primary) THEN d[primary]
    ELSE IF fallback \in DOMAIN d THEN d[fallback] ELSE Null

NormalizedPerson ==
    op = "_normalize_record" /\ ret.kind = "return" /\ ret.val # Null

\* C6: every WantedPerson _normalize_record returns has a non-empty
\* full_name, also when the raw name is whitespace only.
C6_FullNameNonEmpty == NormalizedPerson => ret.val.full_name # <<>>

\* C7: _normalize_record returns absent, and raises nothing, for every raw
\* record in which neither full_name nor name holds a non-empty value,
\* whatever the other fields contain.
C7_NoNameIsAbsent ==
    (op = "_normalize_record" /\ ~HoldsValue(arg, "full_name") /\ ~HoldsValue(arg, "name"))
        => ret = Return(Null)

C7_Witness ==
    /\ op = "_normalize_record"
    /\ "full_name" \in DOMAIN arg /\ arg["full_name"] = S(<<>>)
    /\ "name" \in DOMAIN arg /\ arg["name"] = S(<<>>)
    /\ Get(arg, "alias") = S(<<"J", " ">>)
    /\ Get(arg, "image_url") = S(NotAUrl)
    /\ ret = Return(Null)

\* C8: in the record _normalize_record returns, full_name comes from
\* `full_name` when that is present and non-empty, else from `name`; image_url
\* from `image_url`, else `imageurl`; police_station from `police_station`,
\* else `location` (each as the WantedPerson field type stores it).
C8_FieldFallbacks ==
    NormalizedPerson =>
        /\ S(ret.val.full_name) = StrField(Pick(arg, "full_name", "name"))
        /\ ret.val.image_url = OptUrlField(Pick(arg, "image_url", "imageurl"))
        /\ ret.val.police_station = OptStrField(Pick(arg, "police_station", "location"))

C8_Witness ==
    /\ NormalizedPerson
    /\ HoldsValue(arg, "full_name") /\ HoldsValue(arg, "name")
    /\ HoldsValue(arg, "image_url") /\ HoldsValue(arg, "imageurl")
    /\ HoldsValue(arg, "police_station") /\ HoldsValue(arg, "location")
    /\ ret.val.full_name = <<"A", " ", "b">>
    /\ ret.val.image_url = ParseHttpUrl(UrlImg)
    /\ ret.val.police_station = S(<<"C">>)

\* C9: no record _normalize_record returns has an empty-string alias (alias is
\* absent or non-empty text), also when the raw alias is whitespace only; and
\* a record with an empty alias has the dedup key of the same record without alias.
C9_EmptyAliasIsAbsent ==
    NormalizedPerson =>
        /\ ret.val.alias = Null \/ ret.val.alias.s # <<>>
        /\ DedupKey([ret.val EXCEPT !.alias = S(<<>>)])
              = DedupKey([ret.val EXCEPT !.alias = Null])

----------------------------------------------------------------------------
(* Claims about _extract_records (checked under SpecExtract)               *)

\* the normalized forms of the entries _normalize_record accepts, in order
RECURSIVE UsableForms(_)
UsableForms(entries) ==
    IF entries = <<>> THEN <<>>
    ELSE LET n == _normalize_record(Head(entries).d)
         IN  (IF n.kind = "return" /\ n.val # Null THEN <<n.val>> ELSE <<>>)
                 \o UsableForms(Tail(entries))

\* C10: _extract_records never fails on an unusable entry: it yields exactly
\* the normalized forms of the usable entries in their order, and an entry
\* without a name or with a field value the model rejects only shortens the output.
C10_UnusableEntriesSkipped ==
    (op = "_extract_records" /\ "wanted_persons" \in DOMAIN arg) =>
        ret = Return(UsableForms(arg["wanted_persons"].l))

\* the order in which the slots of a response are documented to be probed
ProbeOrder == <<"wanted_persons", "data.wanted_persons", "data.criminals", "criminals", "items">>

\* slot is present in the response raw
SlotPresent(raw, slot) ==
    CASE slot = "data.wanted_persons" ->
            "data" \in DOMAIN raw /\ raw["data"].t = "dict"
                /\ "wanted_persons" \in DOMAIN raw["data"].d
      [] slot = "data.criminals" ->
            "data" \in DOMAIN raw /\ raw["data"].t = "dict"
                /\ "criminals" \in DOMAIN raw["data"].d
      [] OTHER -> slot \in DOMAIN raw

SlotValue(raw, slot) ==
    CASE slot = "data.wanted_persons" -> raw["data"].d["wanted_persons"]
      [] slot = "data.criminals" -> raw["data"].d["criminals"]
      [] OTHER -> raw[slot]

\* the value of the first slot of ProbeOrder present in raw, an empty list when none is
FirstPresent(raw) ==
    LET present == {i \in 1..Len(ProbeOrder) : SlotPresent(raw, ProbeOrder[i])}
    IN  IF present = {} THEN L(<<>>)
        ELSE SlotValue(raw, ProbeOrder[CHOOSE i \in present : \A j \in present : i <= j])

\* C11: _extract_records reads its entries from the first slot present in the
\* order wanted_persons, data.wanted_persons, data.criminals, criminals, items;
\* that slot decides even when its list is empty, and no later slot is read.
C11_FirstPresentKeyDecides ==
    op = "_extract_records" => ret = ExtractLoop(FirstPresent(arg).l, <<>>)

----------------------------------------------------------------------------
(* Specification of _extract_records over malformed extraction responses    *)

\* values of the wrong shape under each probed key (Absent: the key is missing)
MalformedChoices ==
    [wanted_persons |-> {Absent, Null, S(<<"a", "b">>), I(7), L(<<S(<<"a">>)>>),
                         L(<<I(1)>>), L(<<Null>>)},
     data |-> {Absent, Null, I(7), S(<<"x">>), L(<<>>),
               D(MkDict([wanted_persons |-> Absent, criminals |-> Absent])),
               D(MkDict([wanted_persons |-> Null, criminals |-> Absent])),
               D(MkDict([wanted_persons |-> Absent, criminals |-> L(<<S(<<"a">>)>>)]))},
     criminals |-> {Absent, Null, I(7), L(<<S(<<"a">>)>>)},
     items |-> {Absent, Null, S(<<"a">>), L(<<I(1)>>)}]

InitMalformed ==
    /\ settings = DefaultSettings
    /\ file = NoFile
    /\ lastWrite = NoWrite
    /\ op = "input"
    /\ \E w \in MalformedChoices.wanted_persons, d \in MalformedChoices.data,
          c \in MalformedChoices.criminals, i \in MalformedChoices.items :
          arg = MkDict([wanted_persons |-> w, data |-> d, criminals |-> c, items |-> i])
    /\ ret = Return(Null)
    /\ calls = <<>>
    /\ environ = {}
    /\ threads = <<>>

SpecMalformed == InitMalformed /\ [][NextExtract]_vars

\* C12: a malformed extraction response (every probed key missing or holding a
\* value of the wrong shape: data null or not a mapping, a list that is null or
\* holds non-mapping entries) makes _extract_records yield no record and raise nothing.
C12_MalformedYieldsNothing ==
    op = "_extract_records" => ret = Return(<<>>)

----------------------------------------------------------------------------
(* Specification of _normalize_crimes over raw crimes values                *)

MaxCrimes == 3      \* longest raw crimes list
MaxTokens == 4      \* most tokens a raw crimes text is made of

\* the elements tried in a raw crimes list
CrimeItems ==
    {S(<<"a">>), S(<<" ", "b", " ">>), S(<<>>), S(<<" ">>), S(<<"a", ",", "b">>), I(7), Null}

\* the pieces a raw crimes text is made of
CrimeTokens ==
    {<<"a">>, <<" ">>, <<",">>, <<",", " ", "b">>, <<"a", "n", "d">>,
     <<" ", "a", "n", "d", " ">>, <<"n", "d", " ">>}

RECURSIVE Flatten(_)
Flatten(seqs) == IF seqs = <<>> THEN <<>> ELSE Head(seqs) \o Flatten(Tail(seqs))

CrimeValues ==
    {Null, I(7)}
    \cup {L(l) : l \in SeqsUpTo(CrimeItems, MaxCrimes)}
    \cup {S(Flatten(t)) : t \in SeqsUpTo(CrimeTokens, MaxTokens)}

InitCrimes ==
    /\ settings = DefaultSettings
    /\ file = NoFile
    /\ lastWrite = NoWrite
    /\ op = "input"
    /\ arg \in CrimeValues
    /\ ret = Return(Null)
    /\ calls = <<>>
    /\ environ = {}
    /\ threads = <<>>

NormalizeCrimes ==
    /\ op = "input"
    /\ op' = "_normalize_crimes"
    /\ ret' = Return(_normalize_crimes(arg))
    /\ UNCHANGED <<environ, threads, settings, file, lastWrite, arg, calls>>

NextCrimes == NormalizeCrimes

SpecCrimes == InitCrimes /\ [][NextCrimes]_vars

----------------------------------------------------------------------------
(* Claims about _normalize_crimes (checked under SpecCrimes)               *)

\* the pieces of s between its separators, a comma or the word " and ",
\* found in one pass from the left
RECURSIVE CutParts(_, _)
CutParts(s, cur) ==
    IF s = <<>> THEN <<cur>>
    ELSE IF Head(s) = "," THEN <<cur>> \o CutParts(Tail(s), <<>>)
    ELSE IF Len(s) >= 5 /\ SubSeq(s, 1, 5) = <<" ", "a", "n", "d", " ">>
         THEN <<cur>> \o CutParts(SubSeq(s, 6, Len(s)), <<>>)
         ELSE CutParts(Tail(s), Append(cur, Head(s)))

\* text without surrounding blanks
Trimmed(s) == s = <<>> \/ (s[1] # " " /\ s[Len(s)] # " ")

\* the longest piece of s with no blank at either end
Trim(s) ==
    LET inner == {i \in 1..Len(s) : s[i] # " "}
    IN  IF inner = {} THEN <<>>
        ELSE SubSeq(s, CHOOSE i \in inner : \A j \in inner : i <= j,
                       CHOOSE i \in inner : \A j \in inner : i >= j)

\* the non-empty members of parts, trimmed, in order
RECURSIVE TrimmedNonEmpty(_)
TrimmedNonEmpty(parts) ==
    IF parts = <<>> THEN <<>>
    ELSE (IF Trim(Head(parts)) = <<>> THEN <<>> ELSE <<Trim(Head(parts))>>)
            \o TrimmedNonEmpty(Tail(parts))

\* C13: _normalize_crimes maps an absent value to the empty list, a list to its
\* elements stringified, trimmed and without the empty ones, in order, and a
\* text to its parts between commas and the word " and ", trimmed and without
\* the empty ones, in order; for a list or a text no part of the result is
\* empty or has a blank at either end.
C13_CrimesNormalized ==
    op = "_normalize_crimes" =>
        /\ arg.t = "null" => ret.val = <<>>
        /\ arg.t = "list" =>
              ret.val = TrimmedNonEmpty([i \in 1..Len(arg.l) |-> PyStr(arg.l[i])])
        /\ arg.t = "str" => ret.val = TrimmedNonEmpty(CutParts(arg.s, <<>>))
        /\ arg.t \in {"list", "str"} =>
              \A i \in 1..Len(ret.val) : ret.val[i] # <<>> /\ Trimmed(ret.val[i])

\* "a and a, b"-like text: both separators occur and three parts come out
C13_Witness ==
    /\ op = "_normalize_crimes"
    /\ arg.t = "str"
    /\ Find(arg.s, <<" ", "a", "n", "d", " ">>) # 0
    /\ Find(arg.s, <<",">>) # 0
    /\ Len(ret.val) = 3

----------------------------------------------------------------------------
(* api/wanted_persons.py: _filter_records                                   *)

\* text.lower() in field.lower(), compared as written
ContainsCaseSensitive(field, text) == Find(field, text) # 0

\* text.lower() in field.lower()
Contains(field, text) == Find(Lower(field), Lower(text)) # 0

\* matches(person) is evaluated for every record, with an absent filter read as ""
_filter_records_always_matching(items, station, alias) ==
    LET matches(person) ==
            /\ person.police_station # Null
            /\ Contains(person.police_station.s, IF station = Null THEN <<>> ELSE station.s)
            /\ person.alias # Null
            /\ Contains(person.alias.s, IF alias = Null THEN <<>> ELSE alias.s)
    IN  SelectSeq(items, matches)

\* _filter_records(items, station, alias): a list of WantedPerson
_filter_records(items, station, alias) ==
    IF ~Truthy(station) /\ ~Truthy(alias) THEN items
    ELSE LET matches(person) ==
                 LET station_match ==
                         IF Truthy(station)
                         THEN person.police_station # Null
                                 /\ Contains(person.police_station.s, station.s)
                         ELSE TRUE
                     alias_match ==
                         IF Truthy(alias)
                         THEN person.alias # Null /\ Contains(person.alias.s, alias.s)
                         ELSE TRUE
                 IN  station_match /\ alias_match
         IN  SelectSeq(items, matches)

\* the records the filter is tried on
FilterPersons ==
    {WantedPerson(S(<<"a">>), a, L(<<>>), Null, p, Null).val :
        a \in {Null, S(<<"J">>), S(<<"b">>)},
        p \in {Null, S(<<>>), S(<<"C">>), S(<<"a", "c">>), S(<<"b">>)}}

\* the query parameters station and alias (Null: not given)
StationFilters == {Null, S(<<>>), S(<<"c">>), S(<<"A", "C">>)}
AliasFilters == {Null, S(<<>>), S(<<"j">>)}

InitFilter ==
    /\ settings = DefaultSettings
    /\ file = NoFile
    /\ lastWrite = NoWrite
    /\ op = "input"
    /\ \E items \in SeqsUpTo(FilterPersons, MaxItems),
          station \in StationFilters, alias \in AliasFilters :
          arg = [items |-> items, station |-> station, alias |-> alias]
    /\ ret = Return(Null)
    /\ calls = <<>>
    /\ environ = {}
    /\ threads = <<>>

FilterRecords ==
    /\ op = "input"
    /\ op' = "_filter_records"
    /\ ret' = Return(_filter_records(arg.items, arg.station, arg.alias))
    /\ UNCHANGED <<environ, threads, settings, file, lastWrite, arg, calls>>

NextFilter == FilterRecords

SpecFilter == InitFilter /\ [][NextFilter]_vars

----------------------------------------------------------------------------
(* Claims about _filter_records (checked under SpecFilter)                 *)

\* C14: without a station filter and without an alias filter _filter_records
\* returns its input list: the same records in the same order and number.
C14_NoFilterIsIdentity ==
    (op = "_filter_records" /\ arg.station = Null /\ arg.alias = Null) =>
        ret.val = arg.items

\* two records, one of them without station and alias, pass unfiltered
C14_Witness ==
    /\ op = "_filter_records" /\ arg.station = Null /\ arg.alias = Null
    /\ Len(arg.items) = 2
    /\ arg.items[1].police_station = Null /\ arg.items[1].alias = Null
    /\ arg.items[2].police_station # Null
    /\ ret.val = arg.items

\* a filter text was given (an empty text is no filter)
Supplied(f) == f # Null /\ f.s # <<>>

\* field is present and holds text somewhere, letter case ignored
Within(field, text) ==
    /\ field # Null
    /\ \E i \in 1..(Len(field.s) - Len(text.s) + 1) :
          Lower(SubSeq(field.s, i, i + Len(text.s) - 1)) = Lower(text.s)

\* C15: _filter_records returns exactly the input records, in input order,
\* that satisfy every supplied filter: a supplied station requires a present
\* police_station containing the text, a supplied alias a present alias
\* containing the text, both ignoring letter case and both when both are
\* supplied; a record whose filtered field is absent is never returned.
C15_FilterSelects ==
    op = "_filter_records" =>
        LET Keeps(person) ==
                /\ Supplied(arg.station) => Within(person.police_station, arg.station)
                /\ Supplied(arg.alias) => Within(person.alias, arg.alias)
        IN  /\ ret.val = SelectSeq(arg.items, Keeps)
            /\ \A i \in 1..Len(ret.val) :
                  /\ Supplied(arg.station) => ret.val[i].police_station # Null
                  /\ Supplied(arg.alias) => ret.val[i].alias # Null

\* both filters given in another letter case than the record that passes,
\* and the other record dropped
C15_Witness ==
    /\ op = "_filter_records"
    /\ arg.station = S(<<"c">>) /\ arg.alias = S(<<"j">>)
    /\ Len(arg.items) = 2 /\ Len(ret.val) = 1
    /\ ret.val[1].police_station = S(<<"a", "c">>) /\ ret.val[1].alias = S(<<"J">>)

----------------------------------------------------------------------------
(* services/wanted_persons_scraper.py: scrape_wanted_persons, and the       *)
(* handlers of api/wanted_persons.py                                        *)

\* an exception carrying a message, str(err) being the pieces of msg joined
RaiseMsg(e, msg) == [kind |-> "raise", exc |-> e, msg |-> msg]

\* the extraction service is contacted before the key is looked at
scrape_wanted_persons_key_unchecked(s, rsp, now) ==
    [out |-> RaiseMsg("RuntimeError",
                      <<"FIRECRAWL_API_KEY is not configured; cannot run scrape">>),
     calls |-> <<"firecrawl.extract">>]

\* scrape_wanted_persons() with the settings s, the extraction service
\* answering rsp and the clock reading now: its outcome and the calls it makes
scrape_wanted_persons(s, rsp, now) ==
    IF ~Truthy(s.firecrawl_api_key)
    THEN [out |-> RaiseMsg("RuntimeError",
                           <<"FIRECRAWL_API_KEY is not configured; cannot run scrape">>),
          calls |-> <<>>]
    ELSE IF ~rsp.success
    THEN [out |-> RaiseMsg("RuntimeError", <<"Firecrawl extraction failed: ", rsp.error>>),
          calls |-> <<"firecrawl.extract">>]
    ELSE LET response_data == IF Truthy(rsp.data) THEN rsp.data.d ELSE <<>>
         IN  CHOOSE result \in
                 {[out |-> IF records.kind = "raise" THEN records
                           ELSE WantedPersonsPayload(now, S(s.wanted_persons_source_url),
                                                     DictValues(Dedupe(records.val, <<>>))),
                   calls |-> <<"firecrawl.extract">>] :
                     records \in {_extract_records(response_data)}} : TRUE

\* the response to a request: HTTPException(status_code, detail) and the
\* framework's answer to an exception no handler catches
HttpError(status, detail) == [status |-> status, detail |-> detail]
InternalServerError == HttpError(500, <<"Internal Server Error">>)

\* get_wanted_persons(scraper, station, alias), scraped being the outcome of scraper()
get_wanted_persons(scraped, station, alias) ==
    IF scraped.kind = "raise"
    THEN IF scraped.exc = "RuntimeError" THEN HttpError(500, scraped.msg)
         ELSE InternalServerError
    ELSE [status |-> 200,
          body |-> [scraped.val EXCEPT
                        !.items = _filter_records(scraped.val.items, station, alias)]]

\* refresh_wanted_persons(scraper), scraped being the outcome of scraper()
refresh_wanted_persons(scraped) ==
    IF scraped.kind = "raise"
    THEN IF scraped.exc = "RuntimeError" THEN HttpError(500, scraped.msg)
         ELSE InternalServerError
    ELSE [status |-> 202, body |-> scraped.val]

\* the settings of a deployment without and with an extraction-service key
ApiSettings ==
    {[firecrawl_api_key |-> k,
      wanted_persons_source_url |-> DefaultSettings.wanted_persons_source_url,
      default_scrape_timestamp |-> DefaultSettings.default_scrape_timestamp] :
        k \in {Null, S(<<"k">>)}}

\* the snapshots the data file may hold when a request arrives
ApiSnapshots ==
    {WantedPersonsPayload([t |-> "datetime", n |-> 2, tz |-> "utc"], S(UrlX), items).val :
        items \in SeqsUpTo({WantedPerson(S(<<"a">>), Null, L(<<>>), Null, Null, Null).val,
                            WantedPerson(S(<<"b">>), S(<<"J">>), L(<<>>), Null,
                                         S(<<"C">>), Null).val}, MaxItems)}

\* the entries the extraction service may return
ScrapeEntries ==
    {D([full_name |-> S(<<"a">>), alias |-> S(<<"J">>), police_station |-> S(<<"C">>)]),
     D([name |-> S(<<"A">>), alias |-> S(<<"j">>)]),
     D([full_name |-> S(<<"a">>), image_url |-> S(NotAUrl)])}

\* what client.extract may answer: no success, with or without an error
\* text, or success with the extracted data
ExtractResponses ==
    {[success |-> FALSE, error |-> e, data |-> Null] : e \in {"Unknown error", "None", "e"}}
    \cup {[success |-> TRUE, error |-> "None", data |-> d] :
            d \in {Null} \cup {D(MkDict([wanted_persons |-> L(l)])) :
                                   l \in SeqsUpTo(ScrapeEntries, MaxEntries)}}

\* datetime.now(timezone.utc) when a scrape runs
UtcNow == [t |-> "datetime", n |-> 1, tz |-> "utc"]

InitApi ==
    /\ settings \in ApiSettings
    /\ \/ file = NoFile /\ lastWrite = NoWrite
       \/ \E payload \in ApiSnapshots :
             /\ file = model_dump(payload)
             /\ lastWrite = [by |-> "save_wanted_persons", args |-> <<payload>>,
                             payload |-> payload, drops |-> FALSE]
    /\ op = "input"
    /\ arg = <<>>
    /\ ret = Return(Null)
    /\ calls = <<>>
    /\ environ = IF Truthy(settings.firecrawl_api_key) THEN {"FIRECRAWL_API_KEY"} ELSE {}
    /\ threads = <<>>

\* GET /wanted-persons/
GetWantedPersons ==
    \E rsp \in ExtractResponses, station \in {Null, S(<<"c">>)}, alias \in {Null, S(<<"j">>)} :
        \E scraped \in {scrape_wanted_persons(settings, rsp, UtcNow)} :
            /\ op' = "GET /wanted-persons/"
            /\ arg' = [station |-> station, alias |-> alias, response |-> rsp]
            /\ ret' = get_wanted_persons(scraped.out, station, alias)
            /\ calls' = scraped.calls
            /\ UNCHANGED <<environ, threads, settings, file, lastWrite>>

\* POST /wanted-persons/scrape
PostScrape ==
    \E rsp \in ExtractResponses :
        \E scraped \in {scrape_wanted_persons(settings, rsp, UtcNow)} :
            /\ op' = "POST /wanted-persons/scrape"
            /\ arg' = [response |-> rsp]
            /\ ret' = refresh_wanted_persons(scraped.out)
            /\ calls' = scraped.calls
            /\ UNCHANGED <<environ, threads, settings, file, lastWrite>>

NextApi == GetWantedPersons \/ PostScrape

SpecApi == InitApi /\ [][NextApi]_vars

----------------------------------------------------------------------------
(* Claims about the wanted-persons endpoints (checked under SpecApi)       *)

\* C16: GET /wanted-persons/ serves the persisted dataset: with a snapshot
\* saved the response is 200 and its items are the snapshot's items, filtered,
\* in stored order, also without an extraction-service key, and handling the
\* request does not call the extraction service.
C16_GetServesSnapshot ==
    (op = "GET /wanted-persons/" /\ file # NoFile) =>
        /\ ret.status = 200
        /\ ret.body.items = _filter_records(load_wanted_persons(settings, file).val.items,
                                            arg.station, arg.alias)
        /\ calls = <<>>

\* C17: after a successful POST /wanted-persons/scrape the payload
\* load_wanted_persons returns is the payload of the response.
C17_ScrapePersists ==
    (op = "POST /wanted-persons/scrape" /\ ret.status = 202) =>
        load_wanted_persons(settings, file) = Return(ret.body)

----------------------------------------------------------------------------
(* The daily report: services/activity_collector.py, report_generator.py,   *)
(* email_sender.py and the handler of api/reports.py                        *)

\* reading a field the object has not returns None
GetAttrOrNone(s, name) ==
    IF name \in DOMAIN s THEN Return(s[name]) ELSE Return(Null)

\* settings.<name>: reading a field the object has not raises AttributeError
GetAttr(s, name) ==
    IF name \in DOMAIN s THEN Return(s[name]) ELSE Raise("AttributeError")

\* the test and raise that open each step: value is the outcome of reading the setting
NotConfigured(value, name) ==
    IF value.kind = "raise" THEN value
    ELSE IF ~Truthy(value.val) THEN RaiseMsg("ValueError", <<name, " is not configured">>)
    ELSE Return(Null)

\* collect_24h_activity(): the queries swallow their failures and return []
collect_24h_activity(s, world) ==
    LET check == NotConfigured(GetAttr(s, "convex_deployment_url"), "CONVEX_DEPLOYMENT_URL")
    IN  IF check.kind = "raise" THEN [out |-> check, calls |-> <<>>]
        ELSE [out |-> Return(IF world.db_ok THEN "activity" ELSE "no activity"),
              calls |-> <<"convex.query crimeReports:list", "convex.query tips:list">>]

\* generate_report(activity_data): one condensing call, then one call per section
generate_report(s, activity_data, world) ==
    LET check == NotConfigured(GetAttr(s, "openrouter_api_key"), "OPENROUTER_API_KEY")
    IN  IF check.kind = "raise" THEN [out |-> check, calls |-> <<>>]
        ELSE IF ~world.model_ok
        THEN [out |-> Raise("Exception"), calls |-> <<"model condense">>]
        ELSE [out |-> Return("report"),
              calls |-> <<"model condense">> \o [i \in 1..5 |-> "model section"]]

\* send_report_email(report_markdown): one message per recipient, stopping
\* at the first that fails
send_report_email(s, report_markdown, world) ==
    LET key == NotConfigured(GetAttr(s, "resend_api_key"), "RESEND_API_KEY")
        to == NotConfigured(GetAttr(s, "recipients"), "RECIPIENTS")
    IN  IF key.kind = "raise" THEN [out |-> key, calls |-> <<>>]
        ELSE IF to.kind = "raise" THEN [out |-> to, calls |-> <<>>]
        ELSE LET recipients == Split(s.recipients.s, ",")
             IN  IF world.email_ok
                 THEN [out |-> Return(Null),
                       calls |-> [i \in 1..Len(recipients) |-> "resend.Emails.send"]]
                 ELSE [out |-> Raise("Exception"), calls |-> <<"resend.Emails.send">>]

\* the handler answering success whatever its steps did
generate_daily_report_always_accepting(s, world) ==
    LET collected == collect_24h_activity(s, world)
    IN  [response |-> [status |-> 202,
                       body |-> [status |-> "success",
                                 message |-> "Report generated and sent successfully"]],
         calls |-> collected.calls]

\* generate_daily_report(): the three steps in order; a ValueError is
\* answered with its message, any other exception with a fixed text
generate_daily_report(s, world) ==
    LET collected == collect_24h_activity(s, world)
        generated == generate_report(s, collected.out.val, world)
        sent == send_report_email(s, generated.out.val, world)
        failed == IF collected.out.kind = "raise" THEN collected
                  ELSE IF generated.out.kind = "raise"
                  THEN [out |-> generated.out, calls |-> collected.calls \o generated.calls]
                  ELSE [out |-> sent.out,
                        calls |-> collected.calls \o generated.calls \o sent.calls]
    IN  [response |->
            IF failed.out.kind = "return"
            THEN [status |-> 202,
                  body |-> [status |-> "success",
                            message |-> "Report generated and sent successfully"]]
            ELSE IF failed.out.exc = "ValueError" THEN HttpError(500, failed.out.msg)
            ELSE HttpError(500, <<"Failed to generate report">>),
         calls |-> failed.calls]

\* the values of the variables an environment may set
EnvValue ==
    [FIRECRAWL_API_KEY |-> <<"k">>, WANTED_PERSONS_SOURCE_URL |-> UrlImg]

\* the environment variables a deployment needs for the report
RequiredEnv == {"CONVEX_DEPLOYMENT_URL", "OPENROUTER_API_KEY", "RESEND_API_KEY", "RECIPIENTS"}

\* a deployment: the variables its environment sets, and which of the
\* external services answer
Deployments ==
    [env : SUBSET (RequiredEnv \cup {"FIRECRAWL_API_KEY"}),
     db_ok : BOOLEAN, model_ok : BOOLEAN, email_ok : BOOLEAN]

\* _build_settings(overrides) in the environment env, the clock reading
\* now: each field is `overrides.get(key) or <environment or default>`
_build_settings(overrides, env, now) ==
    LET getenv(name, default) == IF name \in env THEN S(EnvValue[name]) ELSE default
    IN  [firecrawl_api_key |->
             Or(Get(overrides, "firecrawl_api_key"), getenv("FIRECRAWL_API_KEY", Null)),
         wanted_persons_source_url |->
             Or(Get(overrides, "wanted_persons_source_url"),
                getenv("WANTED_PERSONS_SOURCE_URL",
                       S(DefaultSettings.wanted_persons_source_url))).s,
         default_scrape_timestamp |->
             Or(Get(overrides, "default_scrape_timestamp"), S(now)).s]

\* _build_settings() in the environment env: the fields of Settings
BuildSettings(env) ==
    _build_settings(<<>>, env, DefaultSettings.default_scrape_timestamp)

InitReports ==
    /\ arg \in Deployments
    /\ settings = BuildSettings(arg.env)
    /\ file = NoFile
    /\ lastWrite = NoWrite
    /\ op = "input"
    /\ ret = Return(Null)
    /\ calls = <<>>
    /\ environ = arg.env
    /\ threads = <<>>

\* POST /reports/daily
PostDailyReport ==
    LET r == generate_daily_report(settings, arg)
    IN  /\ op' = "POST /reports/daily"
        /\ ret' = r.response
        /\ calls' = r.calls
        /\ UNCHANGED <<environ, threads, settings, file, lastWrite, arg>>

\* send_report_email(report_markdown), called on its own
SendReportEmail ==
    \E sent \in {send_report_email(settings, "report", arg)} :
        /\ op' = "send_report_email"
        /\ ret' = sent.out
        /\ calls' = sent.calls
        /\ UNCHANGED <<environ, threads, settings, file, lastWrite, arg>>

NextReports == PostDailyReport \/ SendReportEmail

SpecReports == InitReports /\ [][NextReports]_vars

----------------------------------------------------------------------------
(* Claims about POST /reports/daily (checked under SpecReports)            *)

\* C19: when the database URL, the model API key, the email API key or the
\* recipient list is not configured, POST /reports/daily fails with a detail
\* that names a missing setting, not with the generic text; no email is sent
\* and no call to an external service is repeated.
C19_MissingConfigNamed ==
    (op = "POST /reports/daily" /\ RequiredEnv \ arg.env # {}) =>
        /\ ret.status >= 400
        /\ \E name \in RequiredEnv \ arg.env : ret.detail = <<name, " is not configured">>
        /\ ret.detail # <<"Failed to generate report">>
        /\ \A i \in 1..Len(calls) : calls[i] # "resend.Emails.send"

\* the step of the pipeline an external call belongs to
StepOf(call) ==
    IF call \in {"convex.query crimeReports:list", "convex.query tips:list",
                 "convex.query criminals:get"} THEN 1
    ELSE IF call \in {"model condense", "model section"} THEN 2
    ELSE 3

\* how often call occurs among the calls of the last request
Count(call) == Cardinality({i \in 1..Len(calls) : calls[i] = call})

C25_OneEmailPerRecipient ==
    op = "send_report_email" =>
        IF {"RESEND_API_KEY", "RECIPIENTS"} \subseteq environ
        THEN IF arg.email_ok
             THEN /\ ret.kind = "return"
                  /\ Len(calls) >= 1
                  /\ \A i \in 1..Len(calls) : calls[i] = "resend.Emails.send"
             ELSE /\ ret.kind = "raise"
                  /\ Len(calls) >= 1
                  /\ \A i \in 1..Len(calls) : calls[i] = "resend.Emails.send"
        ELSE ret.kind = "raise" /\ calls = <<>>

----------------------------------------------------------------------------
(* The chat: services/chat_orchestrator.py and the handler of api/chat.py   *)

MaxHistory == 2     \* longest chat history of a request

\* the words of a user turn that ask for the feed / for criminals
MentionsFeed(content) == content \in {"crime", "crime suspect"}
MentionsCriminals(content) == content \in {"suspect", "crime suspect"}

\* _gather_context(history): the lookups made for the latest user turn; the
\* queries swallow their failures and return []
_gather_context(s, history, world) ==
    LET users == {i \in 1..Len(history) : history[i].role = "user"}
        latest_user == history[CHOOSE i \in users : \A j \in users : j <= i]
        url == GetAttr(s, "convex_deployment_url")
    IN  IF users = {} THEN [out |-> Return(<<>>), calls |-> <<>>]
        ELSE IF url.kind = "raise" THEN [out |-> url, calls |-> <<>>]
        ELSE IF ~Truthy(url.val) THEN [out |-> Return(<<>>), calls |-> <<>>]
        ELSE LET feed == IF MentionsFeed(latest_user.content)
                         THEN <<"convex.query crimeReports:list">> ELSE <<>>
                 criminals == IF MentionsCriminals(latest_user.content)
                              THEN <<"convex.query criminals:list">> ELSE <<>>
             IN  [out |-> Return(IF world.db_ok THEN feed \o criminals ELSE <<>>),
                  calls |-> feed \o criminals]

\* ChatOrchestrator.respond(history), _ensure_lm() included
respond(s, history, world) ==
    IF history = <<>>
    THEN [out |-> RaiseMsg("ValueError", <<"Chat history cannot be empty.">>), calls |-> <<>>]
    ELSE LET lm == NotConfigured(GetAttr(s, "openrouter_api_key"), "OPENROUTER_API_KEY")
             context == _gather_context(s, history, world)
         IN  IF lm.kind = "raise" THEN [out |-> lm, calls |-> <<>>]
             ELSE IF context.out.kind = "raise" THEN context
             ELSE IF ~world.model_ok
             THEN [out |-> Raise("Exception"), calls |-> context.calls \o <<"model reply">>]
             ELSE [out |-> Return([text |-> "reply", references |-> context.out.val]),
                   calls |-> context.calls \o <<"model reply">>]

\* ask_chat(history), replied being the outcome of ORCHESTRATOR.respond(history)
ask_chat(replied) ==
    IF replied.kind = "return" THEN [status |-> 200, body |-> replied.val]
    ELSE IF replied.exc = "ValueError" THEN HttpError(400, replied.msg)
    ELSE HttpError(502, <<"Unable to generate response at this time.">>)

\* the turns of a request body that passes validation
ChatTurns == [role : {"user", "assistant"}, content : {"hi", "crime", "crime suspect"}]

InitChat ==
    /\ \E d \in Deployments, history \in SeqsUpTo(ChatTurns, MaxHistory) :
          /\ d.email_ok
          /\ arg = [history |-> history, env |-> d.env, db_ok |-> d.db_ok,
                    model_ok |-> d.model_ok]
    /\ settings = BuildSettings(arg.env)
    /\ file = NoFile
    /\ lastWrite = NoWrite
    /\ op = "input"
    /\ ret = Return(Null)
    /\ calls = <<>>
    /\ environ = arg.env
    /\ threads = <<>>

\* POST /chat/ask
PostChatAsk ==
    LET r == respond(settings, arg.history, arg)
    IN  /\ op' = "POST /chat/ask"
        /\ ret' = ask_chat(r.out)
        /\ calls' = r.calls
        /\ UNCHANGED <<environ, threads, settings, file, lastWrite, arg>>

NextChat == PostChatAsk

SpecChat == InitChat /\ [][NextChat]_vars

----------------------------------------------------------------------------
(* Claims about POST /chat/ask (checked under SpecChat)                    *)

LatestUserContent ==
    LET users == {i \in 1..Len(arg.history) : arg.history[i].role = "user"}
    IN  IF users = {} THEN ""
        ELSE arg.history[CHOOSE i \in users : \A j \in users : j <= i].content

\* C26: the chat's lookups are decided by the latest user turn only: the
\* reports are queried exactly when that turn mentions the feed and the
\* criminals exactly when it mentions criminals, provided the database URL
\* is configured; without a user turn or without the URL nothing is queried.
C26_ContextFromLatestTurn ==
    op = "POST /chat/ask" =>
        /\ (\E i \in 1..Len(calls) : calls[i] = "convex.query crimeReports:list")
               <=> (MentionsFeed(LatestUserContent) /\ "CONVEX_DEPLOYMENT_URL" \in environ)
        /\ (\E i \in 1..Len(calls) : calls[i] = "convex.query criminals:list")
               <=> (MentionsCriminals(LatestUserContent) /\ "CONVEX_DEPLOYMENT_URL" \in environ)

----------------------------------------------------------------------------
(* core/settings.py: the settings cache                                     *)

\* the keyword arguments a caller hands to override_settings
OverrideChoices ==
    {MkDict([firecrawl_api_key |-> k, wanted_persons_source_url |-> u,
             default_scrape_timestamp |-> t]) :
        k \in {Absent, Null, S(<<"o">>)},
        u \in {Absent, S(<<"h", "t", "t", "p", ":", "/", "/", "o">>)},
        t \in {Absent, S(<<"3">>)}}

\* datetime.now(timezone.utc).isoformat() when the settings are built
ClockTexts == {<<"1", "Z">>, <<"2", "Z">>}

\* the process starts with an empty cache (_SETTINGS_CACHE = None)
InitSettings ==
    /\ settings = Null
    /\ environ \in SUBSET DOMAIN EnvValue
    /\ file = NoFile
    /\ lastWrite = NoWrite
    /\ op = "input"
    /\ arg = <<>>
    /\ ret = Return(Null)
    /\ calls = <<>>
    /\ threads = <<>>

\* get_settings()
GetSettings ==
    \E now \in ClockTexts :
        /\ settings' = IF settings = Null THEN _build_settings(<<>>, environ, now)
                       ELSE settings
        /\ op' = "get_settings"
        /\ arg' = <<>>
        /\ ret' = Return(settings')
        /\ UNCHANGED <<environ, threads, file, lastWrite, calls>>

\* override_settings(**overrides)
OverrideSettings ==
    \E overrides \in OverrideChoices, now \in ClockTexts :
        /\ settings' = _build_settings(overrides, environ, now)
        /\ op' = "override_settings"
        /\ arg' = overrides
        /\ ret' = Return(settings')
        /\ UNCHANGED <<environ, threads, file, lastWrite, calls>>

\* reset_settings(): the cache is cleared, then get_settings() fills it
ResetSettings ==
    \E now \in ClockTexts :
        /\ settings' = _build_settings(<<>>, environ, now)
        /\ op' = "reset_settings"
        /\ arg' = <<>>
        /\ ret' = Return(settings')
        /\ UNCHANGED <<environ, threads, file, lastWrite, calls>>

\* the environment of the process changes (os.environ, monkeypatch.setenv)
SetEnv ==
    \E env \in SUBSET DOMAIN EnvValue :
        /\ env # environ
        /\ environ' = env
        /\ op' = "setenv"
        /\ arg' = env
        /\ ret' = Return(Null)
        /\ UNCHANGED <<threads, settings, file, lastWrite, calls>>

NextSettings == GetSettings \/ OverrideSettings \/ ResetSettings \/ SetEnv

SpecSettings == InitSettings /\ [][NextSettings]_vars

----------------------------------------------------------------------------
(* Claims about the settings cache (checked under SpecSettings)             *)

\* the value of field key of the settings s, as a keyword argument holds it
FieldValue(s, key) == IF key = "firecrawl_api_key" THEN s[key] ELSE S(s[key])

\* C21: get_settings returns the cached object unchanged until
\* override_settings or reset_settings runs; after override_settings(**o)
\* every field named in o has the value supplied in o, a supplied None
\* included, whatever the environment; after reset_settings the values are
\* those of the environment and no override remains.
C21_SettingsCacheProtocol ==
    [][/\ (op' = "get_settings" /\ settings # Null) =>
              (settings' = settings /\ ret' = Return(settings))
       /\ op' = "override_settings" =>
              \A key \in DOMAIN arg' : FieldValue(settings', key) = arg'[key]
       /\ op' = "reset_settings" =>
              \E now \in ClockTexts : settings' = _build_settings(<<>>, environ', now)]_vars

----------------------------------------------------------------------------
(* services/activity_collector.py: the queries behind the daily report      *)

MaxDocs == 2            \* most documents a list query returns
DayMs == 86400000       \* 24 * 60 * 60 * 1000

\* the ids of the criminals incidents may refer to
CriminalIds == {<<"c", "1">>, <<"c", "2">>}

\* int(datetime.now().timestamp() * 1000) when the collection runs
NowMs == DayMs + 10

\* crime reports as crimeReports:list returns them
ReportDocs ==
    {MkDict([_id |-> S(<<"o">>), createdAt |-> I(NowMs - DayMs - 1), criminalId |-> S(<<"c", "1">>)]),
     MkDict([_id |-> S(<<"e">>), createdAt |-> I(NowMs - DayMs), criminalId |-> S(<<"c", "1">>)]),
     MkDict([_id |-> S(<<"n">>), createdAt |-> I(NowMs), criminalId |-> S(<<"c", "2">>)]),
     MkDict([_id |-> S(<<"a">>), createdAt |-> I(NowMs), criminalId |-> Absent]),
     MkDict([_id |-> S(<<"u">>), createdAt |-> Absent, criminalId |-> S(<<"c", "2">>)]),
     MkDict([_id |-> S(<<"z">>), createdAt |-> Null, criminalId |-> S(<<"c", "1">>)])}

\* tips as tips:list returns them
TipDocs ==
    {MkDict([_id |-> S(<<"o">>), createdAt |-> I(NowMs - DayMs - 1)]),
     MkDict([_id |-> S(<<"n">>), createdAt |-> I(NowMs - DayMs + 1)]),
     MkDict([_id |-> S(<<"u">>), createdAt |-> Absent])}

\* a database as the client sees it: every query returns or raises
Databases ==
    [reports : {Raise("Exception")} \cup {Return(l) : l \in SeqsUpTo(ReportDocs, MaxDocs)},
     tips : {Raise("Exception")} \cup {Return(l) : l \in SeqsUpTo(TipDocs, MaxDocs)},
     criminals : {[cid \in CriminalIds |->
                      IF cid \in failing THEN Raise("Exception")
                      ELSE IF cid \in missing THEN Return(Null)
                      ELSE Return(D([_id |-> S(cid)]))] :
                  failing \in SUBSET CriminalIds, missing \in SUBSET CriminalIds},
     listing : {<<<<"c", "1">>, <<"c", "2">>>>, <<<<"c", "2">>, <<"c", "1">>>>}]

\* the query returning every document, whatever its date
_fetch_crime_reports_unfiltered(client, cutoff_ms) ==
    [val |-> IF client.reports.kind = "raise" THEN <<>> ELSE client.reports.val,
     calls |-> <<[query |-> "crimeReports:list", id |-> Null]>>]

\* _fetch_crime_reports(client, cutoff_ms): the documents with
\* r.get("createdAt", 0) >= cutoff_ms; any exception gives [], the
\* TypeError of comparing None with a number included
_fetch_crime_reports(client, cutoff_ms) ==
    [val |-> IF client.reports.kind = "raise" THEN <<>>
             ELSE (IF \E i \in 1..Len(client.reports.val) : "createdAt" \in DOMAIN client.reports.val[i] /\ client.reports.val[i].createdAt = Null
                 THEN <<>>
                 ELSE SelectSeq(client.reports.val,
                          LAMBDA r : IF "createdAt" \in DOMAIN r THEN r.createdAt.n >= cutoff_ms
                                     ELSE 0 >= cutoff_ms)),
     calls |-> <<[query |-> "crimeReports:list", id |-> Null]>>]

\* _fetch_criminals(client, criminal_ids): one query per id; an id whose
\* query raises or returns nothing is left out
RECURSIVE _fetch_criminals(_, _)
_fetch_criminals(client, criminal_ids) ==
    IF criminal_ids = <<>> THEN [val |-> <<>>, calls |-> <<>>]
    ELSE LET cid == Head(criminal_ids)
             criminal == client.criminals[cid]
             rest == _fetch_criminals(client, Tail(criminal_ids))
         IN  [val |-> IF criminal.kind = "return" /\ Truthy(criminal.val)
                      THEN <<criminal.val>> \o rest.val ELSE rest.val,
              calls |-> <<[query |-> "criminals:get", id |-> S(cid)]>> \o rest.calls]

\* _fetch_tips(client, cutoff_ms): the same for tips
_fetch_tips(client, cutoff_ms) ==
    [val |-> IF client.tips.kind = "raise" THEN <<>>
             ELSE (IF \E i \in 1..Len(client.tips.val) : "createdAt" \in DOMAIN client.tips.val[i] /\ client.tips.val[i].createdAt = Null
                 THEN <<>>
                 ELSE SelectSeq(client.tips.val,
                          LAMBDA r : IF "createdAt" \in DOMAIN r THEN r.createdAt.n >= cutoff_ms
                                     ELSE 0 >= cutoff_ms)),
     calls |-> <<[query |-> "tips:list", id |-> Null]>>]

\* the try block of collect_24h_activity; client.listing is the order in
\* which list(criminal_ids) happens to enumerate the set
collect_24h_activity_try(client, cutoff_ms) ==
    CHOOSE result \in
        {[out |-> Return([incidents |-> incidents.val, criminals |-> criminals.val,
                          tips |-> tips.val]),
          calls |-> incidents.calls \o criminals.calls \o tips.calls] :
            <<incidents, criminals, tips>> \in
                {<<inc, _fetch_criminals(client,
                       SelectSeq(client.listing,
                           LAMBDA cid : \E i \in 1..Len(inc.val) :
                               /\ Truthy(Get(inc.val[i], "criminalId"))
                               /\ inc.val[i].criminalId = S(cid))),
                   _fetch_tips(client, cutoff_ms)>> :
                    inc \in {_fetch_crime_reports(client, cutoff_ms)}}} : TRUE

MaxLines == 3           \* most lines of a report's markdown

\* lines a report's markdown is made of
MarkdownLines ==
    {<<"#", " ", "T">>, <<"#", "#", " ", "S">>, <<"#", "#", "#", " ", "S">>,
     <<"*", "t", "*">>, <<"-", " ", "a">>, <<"*", " ", "b">>, <<" ", "-", " ", "a">>,
     <<"*", "*", "b", "*", "*">>, <<"p">>, <<>>}

\* _markdown_to_html(markdown): the parts appended between the fixed head
\* and the fixed footer, lines being markdown.split("\n"); a part is a tag
\* and the text it encloses
_markdown_to_html(lines) ==
    LET StartsWith(l, prefix) ==
            Len(l) >= Len(prefix) /\ SubSeq(l, 1, Len(prefix)) = prefix
        EndsWith(l, suffix) ==
            Len(l) >= Len(suffix) /\ SubSeq(l, Len(l) - Len(suffix) + 1, Len(l)) = suffix
        Part(tag, text) == [tag |-> tag, text |-> text]
        Close(in_list) == IF in_list THEN <<Part("/ul", <<>>)>> ELSE <<>>
        Open(in_list) == IF in_list THEN <<>> ELSE <<Part("ul", <<>>)>>
        RECURSIVE Loop(_, _)
        Loop(rest, in_list) ==
            IF rest = <<>> THEN Close(in_list)
            ELSE LET line == Strip(Head(rest))
                 IN  IF StartsWith(line, <<"#", " ">>)
                     THEN <<Part("h1", SubSeq(line, 3, Len(line)))>> \o Loop(Tail(rest), in_list)
                     ELSE IF /\ StartsWith(line, <<"*">>) /\ EndsWith(line, <<"*">>)
                             /\ ~StartsWith(line, <<"*", "*">>)
                     THEN <<Part("p class='timestamp'", SubSeq(line, 2, Len(line) - 1))>>
                              \o Loop(Tail(rest), in_list)
                     ELSE IF StartsWith(line, <<"#", "#", " ">>)
                     THEN Close(in_list) \o <<Part("h2", SubSeq(line, 4, Len(line)))>>
                              \o Loop(Tail(rest), FALSE)
                     ELSE IF StartsWith(line, <<"#", "#", "#", " ">>)
                     THEN Close(in_list) \o <<Part("h3", SubSeq(line, 5, Len(line)))>>
                              \o Loop(Tail(rest), FALSE)
                     ELSE IF StartsWith(line, <<"-", " ">>)
                     THEN Open(in_list) \o <<Part("li", SubSeq(line, 3, Len(line)))>>
                              \o Loop(Tail(rest), TRUE)
                     ELSE IF StartsWith(line, <<"*", " ">>) /\ ~EndsWith(line, <<"*">>)
                     THEN Open(in_list) \o <<Part("li", SubSeq(line, 3, Len(line)))>>
                              \o Loop(Tail(rest), TRUE)
                     ELSE IF line # <<>>
                     THEN Close(in_list) \o <<Part("p", line)>> \o Loop(Tail(rest), FALSE)
                     ELSE Loop(Tail(rest), in_list)
    IN  Loop(lines, FALSE)

InitServices ==
    /\ arg \in Databases \cup [markdown : SeqsUpTo(MarkdownLines, MaxLines)]
    /\ settings = DefaultSettings
    /\ file = NoFile
    /\ lastWrite = NoWrite
    /\ op = "input"
    /\ ret = Return(Null)
    /\ calls = <<>>
    /\ environ = {}
    /\ threads = <<>>

\* the queries of one collection run against the database
CollectActivity ==
    /\ op = "input"
    /\ "reports" \in DOMAIN arg
    /\ \E collected \in {collect_24h_activity_try(arg, NowMs - DayMs)} :
           /\ ret' = collected.out
           /\ calls' = collected.calls
    /\ op' = "collect_24h_activity"
    /\ UNCHANGED <<environ, threads, settings, file, lastWrite, arg>>

\* the report's markdown is converted for the email
MarkdownToHtml ==
    /\ op = "input"
    /\ "markdown" \in DOMAIN arg
    /\ ret' = Return(_markdown_to_html(arg.markdown))
    /\ op' = "_markdown_to_html"
    /\ UNCHANGED <<environ, threads, settings, file, lastWrite, arg, calls>>

NextServices == CollectActivity \/ MarkdownToHtml

SpecServices == InitServices /\ [][NextServices]_vars

----------------------------------------------------------------------------
(* Claims about the collection of activity (checked under SpecServices)     *)

ReferencedIds(docs) ==
    {cid \in CriminalIds : \E i \in 1..Len(docs) :
        "criminalId" \in DOMAIN docs[i] /\ docs[i].criminalId = S(cid)}

\* every document of docs is dated at or after the cutoff
AllRecent(docs) ==
    \A i \in 1..Len(docs) :
        "createdAt" \in DOMAIN docs[i] /\ docs[i].createdAt.n >= NowMs - DayMs

----------------------------------------------------------------------------
(* Claims about the email's HTML (checked under SpecServices)               *)

\* the lists open after the first i parts of the HTML returned
OpenLists(i) ==
    Cardinality({j \in 1..i : ret.val[j].tag = "ul"})
        - Cardinality({j \in 1..i : ret.val[j].tag = "/ul"})

\* C27: in the HTML of _markdown_to_html the list markup is well nested:
\* <ul> and </ul> alternate and end closed, every <li> is inside an open
\* list, and no heading and no paragraph (the timestamp paragraph included)
\* is emitted while a list is open.
C27_ListsWellNested ==
    op = "_markdown_to_html" =>
        /\ \A i \in 1..Len(ret.val) : OpenLists(i) \in {0, 1}
        /\ OpenLists(Len(ret.val)) = 0
        /\ \A i \in 1..Len(ret.val) :
              /\ ret.val[i].tag = "li" => OpenLists(i) = 1
              /\ ret.val[i].tag \in {"h1", "h2", "h3", "p", "p class='timestamp'"} =>
                     OpenLists(i) = 0

----------------------------------------------------------------------------
(* Specification of one upsert over longer item lists                       *)

MaxRecords == 3         \* longest item list of the single upsert

InitUpsert ==
    /\ arg \in SeqsUpTo(Persons, MaxRecords)
    /\ settings = DefaultSettings
    /\ file = NoFile
    /\ lastWrite = NoWrite
    /\ op = "input"
    /\ ret = Return(Null)
    /\ calls = <<>>
    /\ environ = {}
    /\ threads = <<>>

\* upsert_wanted_persons(items, scraped_at), called once on an empty store
UpsertOnce ==
    /\ op = "input"
    /\ \E payload \in {UpsertPayload(settings, arg, UtcNow)} :
           /\ ret' = payload
           /\ save_wanted_persons(payload.val)
           /\ lastWrite' = [by |-> "upsert_wanted_persons", args |-> <<arg, UtcNow>>,
                            payload |-> payload.val, drops |-> Drops(file, payload.val)]
    /\ op' = "upsert_wanted_persons"
    /\ arg' = <<arg, UtcNow>>
    /\ UNCHANGED <<environ, threads, settings, calls>>

NextUpsert == UpsertOnce

SpecUpsert == InitUpsert /\ [][NextUpsert]_vars

----------------------------------------------------------------------------
(* Claims about the order of deduplicated items (checked under SpecUpsert)  *)

\* the lowest position of the key in the list
FirstPosition(items, key) ==
    CHOOSE i \in 1..Len(items) :
        /\ IdentityKey(items[i]) = key
        /\ \A j \in 1..(i - 1) : IdentityKey(items[j]) # key

\* C28: deduplication keeps the order in which the identity keys are first
\* seen: the items of the payload are ordered by the input position of the
\* first record of each key, the record kept for a key is the last one with
\* that key, and an input without duplicate keys comes out unchanged.
C28_FirstSeenOrder ==
    (op = "upsert_wanted_persons" /\ ret.kind = "return") =>
        LET out == ret.val.items
            in == arg[1]
        IN  /\ Len(out) = Cardinality(KeysOfItems(in))
            /\ \A k, l \in 1..Len(out) :
                  k < l => FirstPosition(in, IdentityKey(out[k]))
                              < FirstPosition(in, IdentityKey(out[l]))
            /\ \A k \in 1..Len(out) : out[k] = in[LastPosition(in, IdentityKey(out[k]))]
            /\ Len(in) = Cardinality(KeysOfItems(in)) => out = in

\* a key seen first, then another key, then the first key again: the later
\* record takes the first position
C28_Witness ==
    /\ op = "upsert_wanted_persons" /\ ret.kind = "return"
    /\ Len(arg[1]) = 3
    /\ IdentityKey(arg[1][1]) = IdentityKey(arg[1][3])
    /\ IdentityKey(arg[1][1]) # IdentityKey(arg[1][2])
    /\ arg[1][1] # arg[1][3]
    /\ ret.val.items = <<arg[1][3], arg[1][2]>>

----------------------------------------------------------------------------
(* Specification of the snapshot store under threads: save_wanted_persons   *)
(* and load_wanted_persons running side by side on the one file             *)

MaxThreads == 3         \* threads inside a storage call at once
MaxBlocks == 2          \* writes the buffered handle makes for one document

\* Every thread makes one call. Thread t saves the payload numbered t; the
\* store is absent or holds the payload numbered 0, saved earlier. The file
\* holds the blocks written to it, block k of payload p being
\* [of |-> p, part |-> k].
InitConcurrent ==
    /\ threads \in [1..MaxThreads -> [call : {"save", "load"}, at : {0}]]
    /\ file \in {NoFile, [t |-> "text",
                         blocks |-> [k \in 1..MaxBlocks |-> [of |-> 0, part |-> k]]]}
    /\ settings = DefaultSettings
    /\ lastWrite = NoWrite
    /\ op = "input"
    /\ arg = 0
    /\ ret = Return(-1)
    /\ calls = <<>>
    /\ environ = {}

\* one step of save_wanted_persons in thread t: path.open("w") creates or
\* empties the file; then json.dump writes block after block at the offset
\* of this handle, a gap left by another thread's truncation reading as a
\* block of no document; the last write closes the handle
SaveStep ==
    \E t \in 1..MaxThreads :
        /\ threads[t].call = "save"
        /\ threads[t].at <= MaxBlocks
        /\ file' = [t |-> "text",
                    blocks |->
                        IF threads[t].at = 0 THEN <<>>
                        ELSE [k \in 1..(IF Len(file.blocks) > threads[t].at
                                        THEN Len(file.blocks) ELSE threads[t].at) |->
                                 IF k = threads[t].at THEN [of |-> t, part |-> k]
                                 ELSE IF k <= Len(file.blocks) THEN file.blocks[k]
                                 ELSE [of |-> -1, part |-> 0]]]
        /\ threads' = [threads EXCEPT ![t].at = @ + 1]
        /\ op' = "save_wanted_persons"
        /\ arg' = t
        /\ ret' = Return(-1)
        /\ UNCHANGED <<environ, settings, lastWrite, calls>>

\* load_wanted_persons in thread t: without a file the default payload
\* (numbered -1); else json.load reads what the file holds and raises
\* unless it is one whole document
LoadStep ==
    \E t \in 1..MaxThreads :
        /\ threads[t].call = "load"
        /\ threads[t].at = 0
        /\ ret' = IF file = NoFile THEN Return(-1)
                  ELSE IF \E p \in 0..MaxThreads :
                              file.blocks = [k \in 1..MaxBlocks |-> [of |-> p, part |-> k]]
                  THEN Return(file.blocks[1].of)
                  ELSE Raise("JSONDecodeError")
        /\ threads' = [threads EXCEPT ![t].at = 1]
        /\ op' = "load_wanted_persons"
        /\ arg' = t
        /\ UNCHANGED <<environ, settings, file, lastWrite, calls>>

NextConcurrent == SaveStep \/ LoadStep

SpecConcurrent == InitConcurrent /\ [][NextConcurrent]_vars

----------------------------------------------------------------------------
(* Claims about the store under threads (checked under SpecConcurrent)      *)

\* the file holds exactly the document of payload p
HoldsWhole(p) ==
    /\ file # NoFile
    /\ file.blocks = [k \in 1..MaxBlocks |-> [of |-> p, part |-> k]]

\* every saving thread has closed its handle
WritersDone ==
    \A t \in 1..MaxThreads : threads[t].call = "save" => threads[t].at = MaxBlocks + 1

\* C29: the store stays whole under interleaving: every load returns,
\* without error, one complete saved payload or the empty default, and once
\* all writers have finished the file holds the document of one of them.
C29_SnapshotWhole ==
    /\ op = "load_wanted_persons" => ret.kind = "return" /\ ret.val \in -1..MaxThreads
    /\ (WritersDone /\ \E t \in 1..MaxThreads : threads[t].call = "save") =>
           \E t \in 1..MaxThreads : threads[t].call = "save" /\ HoldsWhole(t)

====
